---- MODULE Spec2Model ----
(***************************************************************************)
(* A state-machine model of the docker_swarm module                        *)
(* (plugins/modules/docker_swarm.py): one invocation of SwarmManager       *)
(* against a docker daemon, followed by re-invocations with the same       *)
(* parameters.  Python values are modelled as strings ("None" is None,     *)
(* "True"/"False" the booleans, "0", "5", ... the integers), dictionaries  *)
(* as functions whose DOMAIN is the set of keys.  Attributes that          *)
(* TaskParameters inherits from DockerBaseClass are outside this file and  *)
(* are not modelled.                                                       *)
(***************************************************************************)
EXTENDS Naturals, Sequences, FiniteSets, TLC

VARIABLES
    swarm,              \* the daemon: membership of the node and the cluster document
    supported,          \* the options with client.option_minimal_versions[k]['supported']
    params,             \* client.module.params
    check_mode,         \* self.check_mode
    pc,                 \* where the invocation stands
    parameters,         \* self.parameters (a TaskParameters)
    old_parameters,     \* __update_swarm's old_parameters
    update_parameters,  \* __update_swarm's update_parameters
    version,            \* __update_swarm's version
    differences,        \* self.differences (a DifferenceTracker)
    results,            \* the results dictionary handed to exit_json
    swarm_info,         \* self.swarm_info
    created,            \* self.created
    failure,            \* the message of client.fail, "" while there is none
    calls,              \* the transport calls this invocation has issued, in order
    status_down,        \* remove's status_down, "None" until the poll has answered
    polls,              \* status polls done by check_if_swarm_node_is_down
    faults,             \* transport errors raised in this invocation
    external,           \* updates of the cluster by other clients so far
    run,                \* number of the invocation
    before,             \* the node's membership when the invocation started
    prev                \* how the previous invocation ended

vars == <<swarm, supported, params, check_mode, pc, parameters, old_parameters,
          update_parameters, version, differences, results, swarm_info, created,
          failure, calls, status_down, polls, faults, external, run, before, prev>>

\* what an invocation works on, apart from pc, results, calls and the daemon
locals == <<parameters, old_parameters, update_parameters, version, differences,
            swarm_info, created, status_down>>
\* what no step of an invocation changes
fixed == <<supported, params, check_mode, external, run, before, prev>>

-----------------------------------------------------------------------------
(* Bounds of the model *)

\* optional options the caller gives a value in one invocation
MaxSupplied == 1
\* invocations in succession
MaxRuns == 2
\* transport errors in one invocation
MaxFaults == 1
\* updates by other clients
MaxExternal == 1

-----------------------------------------------------------------------------
(* Values *)

None == "None"
True == "True"
False == "False"
EmptyDict == [k \in {} |-> None]

Truthy(v) == v \notin {None, False, "0", "", "{}"}

\* repeat_check of the status poll in remove
RepeatCheck == 5

-----------------------------------------------------------------------------
(* TaskParameters *)

\* the attributes TaskParameters.__init__ sets, in its order
AttrOrder ==
    <<"advertise_addr", "listen_addr", "remote_addrs", "join_token",
      "data_path_addr", "data_path_port",
      "snapshot_interval", "task_history_retention_limit", "keep_old_snapshots",
      "log_entries_for_slow_followers", "heartbeat_tick", "election_tick",
      "dispatcher_heartbeat_period", "node_cert_expiry", "name", "labels",
      "log_driver", "signing_ca_cert", "signing_ca_key", "ca_force_rotate",
      "autolock_managers", "rotate_worker_token", "rotate_manager_token",
      "default_addr_pool", "subnet_size">>

Attrs == {AttrOrder[i] : i \in 1..Len(AttrOrder)}

\* the attributes compare_to_active passes over
NotCompared ==
    {"advertise_addr", "listen_addr", "remote_addrs", "join_token",
     "rotate_worker_token", "rotate_manager_token", "spec",
     "default_addr_pool", "subnet_size", "data_path_addr", "data_path_port"}

\* the sources of update_parameters' assign table
Assign ==
    {"snapshot_interval", "task_history_retention_limit", "keep_old_snapshots",
     "log_entries_for_slow_followers", "heartbeat_tick", "election_tick",
     "dispatcher_heartbeat_period", "node_cert_expiry", "name", "labels",
     "signing_ca_cert", "signing_ca_key", "ca_force_rotate", "autolock_managers",
     "log_driver"}

\* the options of main's argument_spec
ArgumentSpec ==
    {"advertise_addr", "data_path_addr", "data_path_port", "state", "force",
     "listen_addr", "remote_addrs", "join_token", "snapshot_interval",
     "task_history_retention_limit", "keep_old_snapshots",
     "log_entries_for_slow_followers", "heartbeat_tick", "election_tick",
     "dispatcher_heartbeat_period", "node_cert_expiry", "name", "labels",
     "signing_ca_cert", "signing_ca_key", "ca_force_rotate", "autolock_managers",
     "node_id", "rotate_worker_token", "rotate_manager_token",
     "default_addr_pool", "subnet_size"}

\* join_token declared without no_log
NoLog_KeyOnly == {"signing_ca_key"}

\* the options argument_spec declares no_log
NoLog == {"join_token", "signing_ca_key"}

\* the options main's option_minimal_versions ties to a version
GatedOptions ==
    {"labels", "signing_ca_cert", "signing_ca_key", "ca_force_rotate",
     "autolock_managers", "log_driver", "default_addr_pool", "subnet_size",
     "data_path_addr", "data_path_port"}

\* client.option_minimal_versions[k]['supported']
Supported(k) == k \notin GatedOptions \/ k \in supported

\* TaskParameters(): every attribute None, no spec yet
NewTaskParameters == [attr |-> [k \in Attrs |-> None], spec |-> EmptyDict]

\* update_parameters without the capability check
UpdateParameters_Ungated(tp) ==
    [tp EXCEPT !.spec = [k \in {a \in Assign : tp.attr[a] # None} |-> tp.attr[k]]]

\* update_parameters: the swarm spec holds the supported, non-None sources
UpdateParameters(tp) ==
    [tp EXCEPT !.spec =
        [k \in {a \in Assign : Supported(a) /\ tp.attr[a] # None} |-> tp.attr[k]]]

\* from_ansible_params that gives the options the caller left out a zero
FromAnsibleParams_Defaulted ==
    UpdateParameters(
        [attr |-> [k \in Attrs |->
                    IF k \in DOMAIN params /\ params[k] # None THEN params[k]
                    ELSE IF k \in Assign THEN "0" ELSE None],
         spec |-> EmptyDict])

\* from_ansible_params: copy the params that are attributes, then build the spec
FromAnsibleParams ==
    UpdateParameters(
        [attr |-> [k \in Attrs |-> IF k \in DOMAIN params THEN params[k] ELSE None],
         spec |-> EmptyDict])

\* the attributes update_from_swarm_info reads from the reported Spec
FromSwarmInfo ==
    {"node_cert_expiry", "ca_force_rotate", "dispatcher_heartbeat_period",
     "snapshot_interval", "keep_old_snapshots", "heartbeat_tick",
     "log_entries_for_slow_followers", "election_tick",
     "task_history_retention_limit", "autolock_managers", "name", "labels",
     "log_driver"}

\* the top-level key of the reported Spec an attribute is read from
SectionOf ==
    [k \in FromSwarmInfo |->
        CASE k \in {"node_cert_expiry", "ca_force_rotate"} -> "CAConfig"
          [] k = "dispatcher_heartbeat_period" -> "Dispatcher"
          [] k \in {"snapshot_interval", "keep_old_snapshots", "heartbeat_tick",
                    "log_entries_for_slow_followers", "election_tick"} -> "Raft"
          [] k = "task_history_retention_limit" -> "Orchestration"
          [] k = "autolock_managers" -> "EncryptionConfig"
          [] k = "name" -> "Name"
          [] k = "labels" -> "Labels"
          [] k = "log_driver" -> "TaskDefaults"]

\* (spec.get(section) or dict()).get(key)
SectionGet(doc, k) == IF SectionOf[k] \in doc.keys THEN doc.val[k] ELSE None

\* the attributes update_from_swarm_info fills when they are None
Backfilled ==
    {"node_cert_expiry", "ca_force_rotate", "dispatcher_heartbeat_period",
     "snapshot_interval", "keep_old_snapshots", "heartbeat_tick",
     "log_entries_for_slow_followers", "election_tick",
     "task_history_retention_limit", "autolock_managers"}

\* update_from_swarm_info raises KeyError: spec['Name'], spec['TaskDefaults']
UpdateFromSwarmInfoRaises(tp, info) ==
    \/ "Spec" \notin DOMAIN info
    \/ tp.attr["name"] = None /\ "Name" \notin info.Spec.keys
    \/ "TaskDefaults" \notin info.Spec.keys

\* update_from_swarm_info that reads ElectionTick from the HeartbeatTick key
UpdateFromSwarmInfo_WrongKey(tp, info) ==
    LET doc == info.Spec
        fill(k) ==
            CASE k = "election_tick" ->
                    IF tp.attr[k] = None THEN SectionGet(doc, "heartbeat_tick")
                    ELSE tp.attr[k]
              [] k \in Backfilled \ {"election_tick"} ->
                    IF tp.attr[k] = None THEN SectionGet(doc, k) ELSE tp.attr[k]
              [] k = "name" ->
                    IF tp.attr[k] = None THEN doc.val[k] ELSE tp.attr[k]
              [] k = "labels" ->
                    IF tp.attr[k] = None
                    THEN (IF Truthy(SectionGet(doc, k)) THEN doc.val[k] ELSE "{}")
                    ELSE tp.attr[k]
              [] k = "log_driver" ->
                    IF doc.val[k] # None THEN doc.val[k] ELSE tp.attr[k]
              [] OTHER -> tp.attr[k]
    IN  [tp EXCEPT !.attr = [k \in Attrs |-> fill(k)]]

UpdateFromSwarmInfo(tp, info) ==
    LET doc == info.Spec
        fill(k) ==
            CASE k \in Backfilled ->
                    IF tp.attr[k] = None THEN SectionGet(doc, k) ELSE tp.attr[k]
              [] k = "name" ->
                    IF tp.attr[k] = None THEN doc.val[k] ELSE tp.attr[k]
              [] k = "labels" ->
                    IF tp.attr[k] = None
                    THEN (IF Truthy(SectionGet(doc, k)) THEN doc.val[k] ELSE "{}")
                    ELSE tp.attr[k]
              [] k = "log_driver" ->
                    IF doc.val[k] # None THEN doc.val[k] ELSE tp.attr[k]
              [] OTHER -> tp.attr[k]
    IN  [tp EXCEPT !.attr = [k \in Attrs |-> fill(k)]]

-----------------------------------------------------------------------------
(* DifferenceTracker *)

Add(diffs, name, parameter, active) ==
    Append(diffs, [name |-> name, parameter |-> parameter, active |-> active])

HasDifferenceFor(diffs, name) == \E i \in 1..Len(diffs) : diffs[i].name = name

Names(diffs) == {diffs[i].name : i \in 1..Len(diffs)}

RECURSIVE CompareFrom_Falsy(_, _, _, _)
\* the loop of compare_to_active taking any false value for an unset one
CompareFrom_Falsy(i, self, other, diffs) ==
    IF i > Len(AttrOrder) THEN diffs
    ELSE LET k == AttrOrder[i]
             skip == \/ k \in NotCompared
                     \/ ~Supported(k)
                     \/ ~Truthy(self.attr[k])
                     \/ self.attr[k] = other.attr[k]
         IN  CompareFrom_Falsy(i + 1, self, other,
                               IF skip THEN diffs
                               ELSE Add(diffs, k, self.attr[k], other.attr[k]))

RECURSIVE CompareFrom_NoEquality(_, _, _, _)
\* the loop of compare_to_active recording every given attribute
CompareFrom_NoEquality(i, self, other, diffs) ==
    IF i > Len(AttrOrder) THEN diffs
    ELSE LET k == AttrOrder[i]
             skip == \/ k \in NotCompared
                     \/ ~Supported(k)
                     \/ self.attr[k] = None
         IN  CompareFrom_NoEquality(i + 1, self, other,
                                    IF skip THEN diffs
                                    ELSE Add(diffs, k, self.attr[k], other.attr[k]))

RECURSIVE CompareFrom(_, _, _, _)
\* the loop of compare_to_active from the i-th attribute on
CompareFrom(i, self, other, diffs) ==
    IF i > Len(AttrOrder) THEN diffs
    ELSE LET k == AttrOrder[i]
             skip == \/ k \in NotCompared
                     \/ ~Supported(k)
                     \/ self.attr[k] = None
                     \/ self.attr[k] = other.attr[k]
         IN  CompareFrom(i + 1, self, other,
                         IF skip THEN diffs
                         ELSE Add(diffs, k, self.attr[k], other.attr[k]))

\* compare_to_active without the entries of the rotate flags
CompareToActive_NoRotate(self, other, diffs) ==
    CompareFrom(1, self, other, diffs)

\* compare_to_active: the loop, then the entries of the rotate flags
CompareToActive(self, other, diffs) ==
    LET d1 == CompareFrom(1, self, other, diffs)
        d2 == IF Truthy(self.attr["rotate_worker_token"])
              THEN Add(d1, "rotate_worker_token", True, False) ELSE d1
    IN  IF Truthy(self.attr["rotate_manager_token"])
        THEN Add(d2, "rotate_manager_token", True, False) ELSE d2


-----------------------------------------------------------------------------
(* The daemon behind the transport *)

TopKeys ==
    {"Name", "Labels", "Raft", "CAConfig", "Dispatcher", "Orchestration",
     "EncryptionConfig", "TaskDefaults"}

\* what the daemon reports for an option no spec has set
DockerDefault ==
    [k \in Assign |->
        CASE k = "task_history_retention_limit" -> "5"
          [] k = "snapshot_interval" -> "10000"
          [] k = "keep_old_snapshots" -> "0"
          [] k = "log_entries_for_slow_followers" -> "500"
          [] k = "heartbeat_tick" -> "1"
          [] k = "election_tick" -> "10"
          [] k = "dispatcher_heartbeat_period" -> "5000000000"
          [] k = "node_cert_expiry" -> "7776000000000000"
          [] k = "ca_force_rotate" -> "0"
          [] k = "name" -> "default"
          [] k = "labels" -> "{}"
          [] k = "autolock_managers" -> False
          [] OTHER -> None]

\* the Spec the daemon reports once it has taken a swarm spec
ApplySpec(spec) ==
    [keys |-> TopKeys,
     val |-> [k \in Assign |-> IF k \in DOMAIN spec THEN spec[k] ELSE DockerDefault[k]]]

NoSwarm ==
    [member |-> "none", ID |-> None, Version |-> 0, Spec |-> ApplySpec(EmptyDict),
     JoinTokens |-> None]

Rotated(token) == IF token = "SWMTKN-1" THEN "SWMTKN-2" ELSE "SWMTKN-1"

\* the cluster a successful init leaves
NewCluster(spec) ==
    [member |-> "manager", ID |-> "swarm-id", Version |-> 1,
     Spec |-> ApplySpec(spec),
     JoinTokens |-> [Worker |-> "SWMTKN-1", Manager |-> "SWMTKN-1"]]

\* the cluster a successful update leaves
UpdatedCluster(spec, rotate_worker, rotate_manager) ==
    [swarm EXCEPT
        !.Version = @ + 1,
        !.Spec = ApplySpec(spec),
        !.JoinTokens =
            [Worker |-> IF Truthy(rotate_worker) THEN Rotated(@.Worker) ELSE @.Worker,
             Manager |-> IF Truthy(rotate_manager) THEN Rotated(@.Manager)
                         ELSE @.Manager]]

IsManager == swarm.member = "manager"
IsNode == swarm.member # "none"

\* the daemon's unlock key
UnlockKeyOf == IF Truthy(swarm.Spec.val["autolock_managers"]) THEN "SWMKEY-1" ELSE ""

\* whether one more transport call of this invocation may raise APIError
FaultChoices == IF faults < MaxFaults THEN BOOLEAN ELSE {FALSE}

Count(err) == IF err THEN faults + 1 ELSE faults

\* the text to_native gives of the transport's error
APIError == "APIError"

\* how a call ended: "ok", or APIError when the transport raised
Outcome(raised) == IF raised THEN APIError ELSE "ok"

\* the answer of a probe
Answer(b) == IF b THEN True ELSE False

\* an entry of the call log: the operation, its arguments and its result
Call(op) ==
    [op |-> op, spec |-> EmptyDict, version |-> 0, force |-> False,
     rotate_worker_token |-> None, rotate_manager_token |-> None, args |-> {},
     result |-> "ok"]

Mutations == {"init_swarm", "update_swarm", "join_swarm", "leave_swarm", "remove_node"}

Ops(cs) == {cs[i].op : i \in 1..Len(cs)}

CallsOf(cs, op) == {i \in 1..Len(cs) : cs[i].op = op}

-----------------------------------------------------------------------------
(* SwarmManager *)

State == params["state"]
Force == params["force"] = True

NewResults == [changed |-> FALSE, actions |-> <<>>, swarm_facts |-> EmptyDict]

\* dict.get(key), None when the key is missing
Get(d, key) == IF key \in DOMAIN d THEN d[key] ELSE None

\* has_swarm_lock_changed that looks at the desired autolock only
HasSwarmLockChanged_Desired(tp, crt, diffs) == Truthy(tp.attr["autolock_managers"])

HasSwarmLockChanged(tp, crt, diffs) ==
    /\ Truthy(tp.attr["autolock_managers"])
    /\ crt \/ HasDifferenceFor(diffs, "autolock_managers")

\* get_unlock_key whose error leaves an empty key instead of the default
GetUnlockKey_EmptyOnError(tp, crt, diffs, keyErr) ==
    IF ~HasSwarmLockChanged(tp, crt, diffs) THEN None
    ELSE IF keyErr THEN "" ELSE UnlockKeyOf

\* get_unlock_key: the default unless the lock changed and the fetch succeeds
GetUnlockKey(tp, crt, diffs, keyErr) ==
    IF ~HasSwarmLockChanged(tp, crt, diffs) THEN None
    ELSE IF keyErr THEN None ELSE UnlockKeyOf

\* inspect_swarm: the new swarm_info, results and call log.  apiErr: the
\* transport's inspect raises; keyErr: its unlock-key fetch raises.
InspectSwarm(apiErr, keyErr, tp, crt, diffs, res, info, cs) ==
    IF apiErr
    THEN [info |-> info, res |-> res,
          cs |-> Append(cs, [Call("inspect_swarm") EXCEPT !.result = APIError])]
    ELSE LET data == [ID |-> swarm.ID,
                      Version |-> [Index |-> swarm.Version],
                      Spec |-> swarm.Spec,
                      JoinTokens |-> swarm.JoinTokens,
                      UnlockKey |-> GetUnlockKey(tp, crt, diffs, keyErr)]
         IN  [info |-> data,
              res |-> [res EXCEPT !.changed = FALSE, !.swarm_facts = data],
              cs |-> IF HasSwarmLockChanged(tp, crt, diffs)
                     THEN cs \o <<Call("inspect_swarm"),
                                  [Call("get_unlock_key") EXCEPT
                                        !.result = Outcome(keyErr)]>>
                     ELSE Append(cs, Call("inspect_swarm"))]

\* the outcomes of the transport's inspect: (raises, counted as a fault)
InspectOutcomes ==
    IF IsManager THEN {<<FALSE, FALSE>>} \cup {<<TRUE, e>> : e \in FaultChoices \ {FALSE}}
    ELSE {<<TRUE, FALSE>>}

\* the outcomes of check_if_swarm_manager: (answer, counted as a fault)
ManagerProbes ==
    IF IsManager THEN {<<TRUE, FALSE>>} \cup {<<FALSE, e>> : e \in FaultChoices \ {FALSE}}
    ELSE {<<FALSE, FALSE>>}

\* client.fail(msg): the invocation ends there
Fail(msg) ==
    /\ failure' = msg
    /\ pc' = "failed"


-----------------------------------------------------------------------------
(* state=present: init_swarm and __update_swarm *)

\* init_swarm that goes on to the init call in check mode too
InitSwarm_IgnoresCheckMode ==
    /\ pc = "present"
    /\ IF Force
       THEN /\ pc' = "init"
            /\ UNCHANGED <<calls, faults>>
       ELSE \E o \in ManagerProbes :
            /\ calls' = Append(calls, [Call("check_if_swarm_manager") EXCEPT
                                          !.result = Answer(o[1])])
            /\ faults' = Count(o[2])
            /\ pc' = IF o[1] THEN "update" ELSE "init"
    /\ UNCHANGED <<swarm, results, failure, polls, locals, fixed>>

\* init_swarm that probes the node and may update it even when forced
InitSwarm_ProbesWhenForced ==
    /\ pc = "present"
    /\ \E o \in ManagerProbes :
        /\ calls' = Append(calls, [Call("check_if_swarm_manager") EXCEPT
                                      !.result = Answer(o[1])])
        /\ faults' = Count(o[2])
        /\ pc' = IF o[1] THEN "update" ELSE IF check_mode THEN "verify" ELSE "init"
    /\ UNCHANGED <<swarm, results, failure, polls, locals, fixed>>

\* init_swarm up to its first mutation: the manager probe chooses the path
InitSwarm ==
    /\ pc = "present"
    /\ IF Force
       THEN /\ pc' = IF check_mode THEN "verify" ELSE "init"
            /\ UNCHANGED <<calls, faults>>
       ELSE \E o \in ManagerProbes :
            /\ calls' = Append(calls, [Call("check_if_swarm_manager") EXCEPT
                                          !.result = Answer(o[1])])
            /\ faults' = Count(o[2])
            /\ pc' = IF o[1] THEN "update" ELSE IF check_mode THEN "verify" ELSE "init"
    /\ UNCHANGED <<swarm, results, failure, polls, locals, fixed>>

\* the keys of init_arguments
InitArguments ==
    {"advertise_addr", "listen_addr", "force_new_cluster", "swarm_spec"}
    \cup {k \in {"default_addr_pool", "subnet_size", "data_path_addr", "data_path_port"} :
            parameters.attr[k] # None}

\* init_swarm whose APIError is passed over: init_swarm goes on to the check
InitCall_SwallowsError ==
    /\ pc = "init"
    /\ \E err \in FaultChoices :
        LET raised == err \/ ~(~IsNode \/ (Force /\ IsManager))
        IN  /\ faults' = Count(err)
            /\ calls' = Append(calls, [Call("init_swarm") EXCEPT
                                          !.spec = parameters.spec,
                                          !.force = params["force"],
                                          !.args = InitArguments,
                                          !.result = Outcome(raised)])
            /\ swarm' = IF raised THEN swarm ELSE NewCluster(parameters.spec)
            /\ pc' = "verify"
            /\ UNCHANGED failure
    /\ UNCHANGED <<results, polls, locals, fixed>>

\* client.init_swarm(**init_arguments)
InitCall ==
    /\ pc = "init"
    /\ \E err \in FaultChoices :
        LET raised == err \/ ~(~IsNode \/ (Force /\ IsManager))
        IN  /\ faults' = Count(err)
            /\ calls' = Append(calls, [Call("init_swarm") EXCEPT
                                          !.spec = parameters.spec,
                                          !.force = params["force"],
                                          !.args = InitArguments,
                                          !.result = Outcome(raised)])
            /\ IF ~raised
               THEN /\ swarm' = NewCluster(parameters.spec)
                    /\ pc' = "verify"
                    /\ UNCHANGED failure
               ELSE /\ Fail("Can not create a new Swarm Cluster: " \o APIError)
                    /\ UNCHANGED swarm
    /\ UNCHANGED <<results, polls, locals, fixed>>

\* the manager check after the init, fatal in check mode too
Verify_FatalInCheckMode ==
    /\ pc = "verify"
    /\ \E o \in ManagerProbes :
        /\ calls' = Append(calls, [Call("check_if_swarm_manager") EXCEPT
                                      !.result = Answer(o[1])])
        /\ faults' = Count(o[2])
        /\ IF ~o[1]
           THEN /\ Fail("Swarm not created or other error!")
                /\ UNCHANGED created
           ELSE /\ created' = TRUE
                /\ pc' = "created"
                /\ UNCHANGED failure
    /\ UNCHANGED <<swarm, results, polls, parameters, old_parameters,
                   update_parameters, version, differences, swarm_info, status_down, fixed>>

\* the manager check after the init
Verify ==
    /\ pc = "verify"
    /\ \E o \in ManagerProbes :
        /\ calls' = Append(calls, [Call("check_if_swarm_manager") EXCEPT
                                      !.result = Answer(o[1])])
        /\ faults' = Count(o[2])
        /\ IF ~o[1] /\ ~check_mode
           THEN /\ Fail("Swarm not created or other error!")
                /\ UNCHANGED created
           ELSE /\ created' = TRUE
                /\ pc' = "created"
                /\ UNCHANGED failure
    /\ UNCHANGED <<swarm, results, polls, parameters, old_parameters,
                   update_parameters, version, differences, swarm_info, status_down, fixed>>

\* swarm_facts left as the whole swarm_info
CreatedFacts_Full(info) == info

\* the swarm_facts init_swarm reports
CreatedFacts(info) ==
    [JoinTokens |-> Get(info, "JoinTokens"), UnlockKey |-> Get(info, "UnlockKey")]

\* the end of init_swarm: inspect and report the creation
CreatedInspect ==
    /\ pc = "created"
    /\ \E o \in InspectOutcomes, keyErr \in FaultChoices :
        /\ keyErr => ~o[2] /\ ~o[1] /\ HasSwarmLockChanged(parameters, created, differences)
        /\ LET r == InspectSwarm(o[1], keyErr, parameters, created, differences,
                                 results, swarm_info, calls)
           IN  /\ swarm_info' = r.info
               /\ calls' = r.cs
               /\ results' =
                    [changed |-> TRUE,
                     actions |-> Append(r.res.actions,
                                        "New Swarm cluster created: " \o Get(r.info, "ID")),
                     swarm_facts |-> CreatedFacts(r.info)]
        /\ faults' = Count(o[2] \/ keyErr)
    /\ differences' = Add(differences, "state", "present", "absent")
    /\ pc' = "done"
    /\ UNCHANGED <<swarm, failure, polls, parameters, old_parameters,
                   update_parameters, version, created, status_down, fixed>>

\* old_parameters left as a new TaskParameters, not filled from the swarm
OldParameters_NotFilled(info) == NewTaskParameters

\* old_parameters: a new TaskParameters filled from the observed swarm
OldParameters(info) == UpdateFromSwarmInfo(NewTaskParameters, info)

\* __update_swarm up to its mutation: inspect, backfill, compare
UpdateSwarm ==
    /\ pc = "update"
    /\ \E o \in InspectOutcomes :
        LET r == InspectSwarm(o[1], FALSE, parameters, created, differences,
                              results, swarm_info, calls)
            raises == \/ "Version" \notin DOMAIN r.info
                      \/ UpdateFromSwarmInfoRaises(parameters, r.info)
                      \/ UpdateFromSwarmInfoRaises(NewTaskParameters, r.info)
            new == UpdateFromSwarmInfo(parameters, r.info)
            old == OldParameters(r.info)
            diffs == CompareToActive(new, old, differences)
        IN  /\ faults' = Count(o[2])
            /\ calls' = r.cs
            /\ swarm_info' = r.info
            /\ IF raises
               THEN /\ pc' = "crashed"
                    /\ results' = r.res
                    /\ UNCHANGED <<parameters, old_parameters, update_parameters,
                                   version, differences>>
               ELSE /\ version' = r.info.Version.Index
                    /\ parameters' = new
                    /\ old_parameters' = old
                    /\ differences' = diffs
                    /\ IF diffs = <<>>
                       THEN /\ results' = [r.res EXCEPT
                                             !.actions = Append(@, "No modification"),
                                             !.changed = FALSE]
                            /\ pc' = "done"
                            /\ UNCHANGED update_parameters
                       ELSE /\ results' = r.res
                            /\ update_parameters' = UpdateParameters(FromAnsibleParams)
                            /\ pc' = IF check_mode THEN "updated" ELSE "update_call"
    /\ UNCHANGED <<swarm, failure, polls, created, status_down, fixed>>

\* update_swarm that, refused for its version, reads the version again and
\* submits the update once more
UpdateCall_Retries ==
    /\ pc = "update_call"
    /\ \E err \in FaultChoices :
        LET raised == err \/ ~IsManager
            sent(v, r) == [Call("update_swarm") EXCEPT
                              !.spec = update_parameters.spec,
                              !.version = v,
                              !.rotate_worker_token = parameters.attr["rotate_worker_token"],
                              !.rotate_manager_token = parameters.attr["rotate_manager_token"],
                              !.result = Outcome(r)]
        IN  /\ faults' = Count(err)
            /\ calls' = IF ~raised /\ version # swarm.Version
                         THEN calls \o <<sent(version, TRUE), Call("inspect_swarm"),
                                         sent(swarm.Version, FALSE)>>
                         ELSE Append(calls, sent(version, raised))
            /\ IF ~raised
               THEN /\ swarm' = UpdatedCluster(update_parameters.spec,
                                               parameters.attr["rotate_worker_token"],
                                               parameters.attr["rotate_manager_token"])
                    /\ pc' = "updated"
                    /\ UNCHANGED failure
               ELSE /\ Fail("Can not update a Swarm Cluster: " \o APIError)
                    /\ UNCHANGED swarm
    /\ UNCHANGED <<results, polls, locals, fixed>>

\* client.update_swarm(version, swarm_spec, rotate flags)
UpdateCall ==
    /\ pc = "update_call"
    /\ \E err \in FaultChoices :
        LET raised == err \/ ~(IsManager /\ version = swarm.Version)
        IN  /\ faults' = Count(err)
            /\ calls' = Append(calls, [Call("update_swarm") EXCEPT
                                          !.spec = update_parameters.spec,
                                          !.version = version,
                                          !.rotate_worker_token =
                                                parameters.attr["rotate_worker_token"],
                                          !.rotate_manager_token =
                                                parameters.attr["rotate_manager_token"],
                                          !.result = Outcome(raised)])
            /\ IF ~raised
               THEN /\ swarm' = UpdatedCluster(update_parameters.spec,
                                               parameters.attr["rotate_worker_token"],
                                               parameters.attr["rotate_manager_token"])
                    /\ pc' = "updated"
                    /\ UNCHANGED failure
               ELSE /\ Fail("Can not update a Swarm Cluster: " \o APIError)
                    /\ UNCHANGED swarm
    /\ UNCHANGED <<results, polls, locals, fixed>>

\* the end of __update_swarm without its second inspect
UpdatedInspect_NoRefetch ==
    /\ pc = "updated"
    /\ results' = [results EXCEPT
                     !.actions = Append(@, "Swarm cluster updated"),
                     !.changed = TRUE]
    /\ pc' = "done"
    /\ UNCHANGED <<swarm, failure, calls, polls, faults, locals, fixed>>

\* the end of __update_swarm: inspect again and report the update
UpdatedInspect ==
    /\ pc = "updated"
    /\ \E o \in InspectOutcomes, keyErr \in FaultChoices :
        /\ keyErr => ~o[2] /\ ~o[1] /\ HasSwarmLockChanged(parameters, created, differences)
        /\ LET r == InspectSwarm(o[1], keyErr, parameters, created, differences,
                                 results, swarm_info, calls)
           IN  /\ swarm_info' = r.info
               /\ calls' = r.cs
               /\ results' = [r.res EXCEPT
                                !.actions = Append(@, "Swarm cluster updated"),
                                !.changed = TRUE]
        /\ faults' = Count(o[2] \/ keyErr)
    /\ pc' = "done"
    /\ UNCHANGED <<swarm, failure, polls, parameters, old_parameters,
                   update_parameters, version, differences, created, status_down, fixed>>


-----------------------------------------------------------------------------
(* state=join, state=absent, state=remove *)

\* what join reports once the node has joined
Joined ==
    /\ results' = [results EXCEPT
                     !.actions = Append(@, "New node is added to swarm cluster"),
                     !.changed = TRUE]
    /\ differences' = Add(differences, "joined", True, False)
    /\ pc' = "done"

\* join that goes on to the join call on a node already in a swarm
Join_NoMembershipCheck ==
    /\ pc = "join"
    /\ calls' = Append(calls, [Call("check_if_swarm_node") EXCEPT
                                  !.result = Answer(IsNode)])
    /\ IF check_mode
       THEN Joined
       ELSE /\ pc' = "join_call"
            /\ UNCHANGED <<results, differences>>
    /\ UNCHANGED <<swarm, failure, polls, faults, parameters, old_parameters,
                   update_parameters, version, swarm_info, created, status_down, fixed>>

\* join up to its mutation
Join ==
    /\ pc = "join"
    /\ calls' = Append(calls, [Call("check_if_swarm_node") EXCEPT
                                  !.result = Answer(IsNode)])
    /\ IF IsNode
       THEN /\ results' = [results EXCEPT
                             !.actions = Append(@, "This node is already part of a swarm.")]
            /\ pc' = "done"
            /\ UNCHANGED differences
       ELSE IF check_mode
            THEN Joined
            ELSE /\ pc' = "join_call"
                 /\ UNCHANGED <<results, differences>>
    /\ UNCHANGED <<swarm, failure, polls, faults, parameters, old_parameters,
                   update_parameters, version, swarm_info, created, status_down, fixed>>

\* the keys of join_arguments
JoinArguments ==
    {"remote_addrs", "join_token", "listen_addr", "advertise_addr"}
    \cup {k \in {"data_path_addr"} : parameters.attr[k] # None}

\* join_swarm that, after an error of the transport, is submitted once more
JoinCall_Retries ==
    /\ pc = "join_call"
    /\ \E err \in FaultChoices :
        LET raised == IsNode
            sent(r) == [Call("join_swarm") EXCEPT
                           !.args = JoinArguments,
                           !.result = Outcome(r)]
        IN  /\ faults' = Count(err)
            /\ calls' = IF err THEN calls \o <<sent(TRUE), sent(raised)>>
                        ELSE Append(calls, sent(raised))
            /\ IF ~raised
               THEN /\ swarm' = [swarm EXCEPT !.member = "worker"]
                    /\ Joined
                    /\ UNCHANGED failure
               ELSE /\ Fail("Can not join the Swarm Cluster: " \o APIError)
                    /\ UNCHANGED <<swarm, results, differences>>
    /\ UNCHANGED <<polls, parameters, old_parameters, update_parameters, version,
                   swarm_info, created, status_down, fixed>>

\* client.join_swarm(**join_arguments) and the rest of join
JoinCall ==
    /\ pc = "join_call"
    /\ \E err \in FaultChoices :
        LET raised == err \/ IsNode
        IN  /\ faults' = Count(err)
            /\ calls' = Append(calls, [Call("join_swarm") EXCEPT
                                          !.args = JoinArguments,
                                          !.result = Outcome(raised)])
            /\ IF ~raised
               THEN /\ swarm' = [swarm EXCEPT !.member = "worker"]
                    /\ Joined
                    /\ UNCHANGED failure
               ELSE /\ Fail("Can not join the Swarm Cluster: " \o APIError)
                    /\ UNCHANGED <<swarm, results, differences>>
    /\ UNCHANGED <<polls, parameters, old_parameters, update_parameters, version,
                   swarm_info, created, status_down, fixed>>

\* what leave reports once the node has left
Left ==
    /\ results' = [results EXCEPT
                     !.actions = Append(@, "Node has left the swarm cluster"),
                     !.changed = TRUE]
    /\ differences' = Add(differences, "joined", "absent", "present")
    /\ pc' = "done"

\* leave up to its mutation
Leave ==
    /\ pc = "absent"
    /\ calls' = Append(calls, [Call("check_if_swarm_node") EXCEPT
                                  !.result = Answer(IsNode)])
    /\ IF ~IsNode
       THEN /\ results' = [results EXCEPT
                             !.actions = Append(@, "This node is not part of a swarm.")]
            /\ pc' = "done"
            /\ UNCHANGED differences
       ELSE IF check_mode
            THEN Left
            ELSE /\ pc' = "leave_call"
                 /\ UNCHANGED <<results, differences>>
    /\ UNCHANGED <<swarm, failure, polls, faults, parameters, old_parameters,
                   update_parameters, version, swarm_info, created, status_down, fixed>>

\* leave_swarm called without the caller's force flag
LeaveCall_Unforced ==
    /\ pc = "leave_call"
    /\ \E err \in FaultChoices :
        LET raised == err \/ ~(IsNode /\ ~IsManager)
        IN  /\ faults' = Count(err)
            /\ calls' = Append(calls, [Call("leave_swarm") EXCEPT
                                          !.result = Outcome(raised)])
            /\ IF ~raised
               THEN /\ swarm' = NoSwarm
                    /\ Left
                    /\ UNCHANGED failure
               ELSE /\ Fail("This node can not leave the Swarm Cluster: " \o APIError)
                    /\ UNCHANGED <<swarm, results, differences>>
    /\ UNCHANGED <<polls, parameters, old_parameters, update_parameters, version,
                   swarm_info, created, status_down, fixed>>

\* client.leave_swarm(force=self.force) and the rest of leave; the daemon lets
\* a manager leave only when forced
LeaveCall ==
    /\ pc = "leave_call"
    /\ \E err \in FaultChoices :
        LET raised == err \/ ~(IsNode /\ (Force \/ ~IsManager))
        IN  /\ faults' = Count(err)
            /\ calls' = Append(calls, [Call("leave_swarm") EXCEPT
                                          !.force = params["force"],
                                          !.result = Outcome(raised)])
            /\ IF ~raised
               THEN /\ swarm' = NoSwarm
                    /\ Left
                    /\ UNCHANGED failure
               ELSE /\ Fail("This node can not leave the Swarm Cluster: " \o APIError)
                    /\ UNCHANGED <<swarm, results, differences>>
    /\ UNCHANGED <<polls, parameters, old_parameters, update_parameters, version,
                   swarm_info, created, status_down, fixed>>

\* remove reporting the removal without recording its difference
Removed_NoDifference ==
    /\ results' = [results EXCEPT
                     !.actions = Append(@, "Node is removed from swarm cluster."),
                     !.changed = TRUE]
    /\ differences' = differences
    /\ pc' = "done"

\* what remove reports once the node is removed
Removed ==
    /\ results' = [results EXCEPT
                     !.actions = Append(@, "Node is removed from swarm cluster."),
                     !.changed = TRUE]
    /\ differences' = Add(differences, "joined", False, True)
    /\ pc' = "done"

\* remove without its manager precondition
Remove_NoPrecondition ==
    /\ pc = "remove"
    /\ \E o \in ManagerProbes :
        /\ calls' = Append(calls, [Call("check_if_swarm_manager") EXCEPT
                                      !.result = Answer(o[1])])
        /\ faults' = Count(o[2])
        /\ pc' = "poll"
        /\ UNCHANGED failure
    /\ UNCHANGED <<swarm, results, polls, locals, fixed>>

\* remove: the manager precondition
Remove ==
    /\ pc = "remove"
    /\ \E o \in ManagerProbes :
        /\ calls' = Append(calls, [Call("check_if_swarm_manager") EXCEPT
                                      !.result = Answer(o[1])])
        /\ faults' = Count(o[2])
        /\ IF ~o[1]
           THEN Fail("This node is not a manager.")
           ELSE /\ pc' = "poll"
                /\ UNCHANGED failure
    /\ UNCHANGED <<swarm, results, polls, locals, fixed>>

\* one status poll of check_if_swarm_node_is_down(repeat_check=5): it answers
\* True at the first poll that finds the node down, False after the last one
RemovePoll ==
    /\ pc = "poll"
    /\ polls < RepeatCheck
    /\ polls' = polls + 1
    /\ calls' = IF polls = 0 THEN Append(calls, Call("check_if_swarm_node_is_down"))
                ELSE calls
    /\ \E status \in {"down", "ready"}, err \in FaultChoices :
        /\ faults' = Count(err)
        /\ err => status = "ready"
        /\ IF err
           THEN /\ status_down' = "APIError"
                /\ pc' = "polled"
           ELSE IF status = "down"
           THEN /\ status_down' = True
                /\ pc' = "polled"
           ELSE IF polls + 1 = RepeatCheck
           THEN /\ status_down' = False
                /\ pc' = "polled"
           ELSE UNCHANGED <<pc, status_down>>
    /\ UNCHANGED <<swarm, results, failure, parameters, old_parameters,
                   update_parameters, version, differences, swarm_info, created, fixed>>

\* remove that goes on to the removal of a node that is not down when forced
RemoveDecide_ForceRemoves ==
    /\ pc = "polled"
    /\ IF status_down = "APIError"
       THEN /\ pc' = "done"
            /\ UNCHANGED <<results, differences, failure>>
       ELSE IF ~Truthy(status_down) /\ ~Force
       THEN /\ Fail("Can not remove the node. The status node is ready and not down.")
            /\ UNCHANGED <<results, differences>>
       ELSE IF check_mode
       THEN Removed /\ UNCHANGED failure
       ELSE /\ pc' = "remove_call"
            /\ UNCHANGED <<results, differences, failure>>
    /\ UNCHANGED <<swarm, calls, polls, faults, parameters, old_parameters,
                   update_parameters, version, swarm_info, created, status_down, fixed>>

\* remove that goes on to the removal when the poll has raised
RemoveDecide_ErrorRemoves ==
    /\ pc = "polled"
    /\ IF status_down = False
       THEN /\ Fail("Can not remove the node. The status node is ready and not down.")
            /\ UNCHANGED <<results, differences>>
       ELSE IF check_mode
       THEN Removed /\ UNCHANGED failure
       ELSE /\ pc' = "remove_call"
            /\ UNCHANGED <<results, differences, failure>>
    /\ UNCHANGED <<swarm, calls, polls, faults, parameters, old_parameters,
                   update_parameters, version, swarm_info, created, status_down, fixed>>

\* remove from the poll's answer up to its mutation
RemoveDecide ==
    /\ pc = "polled"
    /\ IF status_down = "APIError"
       THEN \* except APIError: return
            /\ pc' = "done"
            /\ UNCHANGED <<results, differences, failure>>
       ELSE IF ~Truthy(status_down)
       THEN /\ Fail("Can not remove the node. The status node is ready and not down.")
            /\ UNCHANGED <<results, differences>>
       ELSE IF check_mode
       THEN Removed /\ UNCHANGED failure
       ELSE /\ pc' = "remove_call"
            /\ UNCHANGED <<results, differences, failure>>
    /\ UNCHANGED <<swarm, calls, polls, faults, parameters, old_parameters,
                   update_parameters, version, swarm_info, created, status_down, fixed>>

\* client.remove_node(node_id, force) and the rest of remove
RemoveCall ==
    /\ pc = "remove_call"
    /\ \E err \in FaultChoices :
        LET raised == err \/ ~IsManager
        IN  /\ faults' = Count(err)
            /\ calls' = Append(calls, [Call("remove_node") EXCEPT
                                          !.force = params["force"],
                                          !.result = Outcome(raised)])
            /\ IF ~raised
               THEN Removed /\ UNCHANGED failure
               ELSE /\ Fail("Can not remove the node from the Swarm Cluster: " \o APIError)
                    /\ UNCHANGED <<results, differences>>
    /\ UNCHANGED <<swarm, polls, parameters, old_parameters, update_parameters,
                   version, swarm_info, created, status_down, fixed>>

-----------------------------------------------------------------------------
(* Invocations and the world around them *)

Ended == pc \in {"done", "failed", "crashed"}

\* the values of the no_log options the caller gave
NoLogValues == {params[k] : k \in {a \in NoLog : params[a] # None}}

Placeholder == "VALUE_SPECIFIED_IN_NO_LOG_PARAMETER"

\* a returned string, with a no_log value replaced
RemoveValue(v) == IF v \in NoLogValues THEN Placeholder ELSE v

\* swarm_facts as exit_json returns it.  JoinTokens is a dictionary when the
\* inspect has answered, None otherwise.
ReturnedFacts(facts) ==
    [k \in DOMAIN facts |->
        CASE k = "JoinTokens" /\ "JoinTokens" \in DOMAIN swarm_info ->
                [t \in DOMAIN facts[k] |-> RemoveValue(facts[k][t])]
          [] k = "Spec" ->
                [facts[k] EXCEPT !.val = [a \in DOMAIN @ |-> RemoveValue(@[a])]]
          [] k \in {"ID", "UnlockKey"} -> RemoveValue(facts[k])
          [] OTHER -> facts[k]]

\* module.exit_json(**results): what the caller gets
ExitJson == [results EXCEPT !.swarm_facts = ReturnedFacts(@)]

\* SwarmManager.__init__ and the results main hands it
Construct ==
    /\ pc' = State
    /\ parameters' = FromAnsibleParams
    /\ old_parameters' = NewTaskParameters
    /\ update_parameters' = NewTaskParameters
    /\ version' = 0
    /\ differences' = <<>>
    /\ results' = NewResults
    /\ swarm_info' = EmptyDict
    /\ created' = FALSE
    /\ status_down' = None
    /\ failure' = ""
    /\ calls' = <<>>
    /\ polls' = 0
    /\ faults' = 0

\* the caller runs the module again, with the same parameters
NextRun ==
    /\ Ended
    /\ run < MaxRuns
    /\ run' = run + 1
    /\ prev' = [pc |-> pc, changed |-> results.changed, faults |-> faults,
                external |-> external]
    /\ before' = swarm.member
    /\ Construct
    /\ UNCHANGED <<swarm, supported, params, check_mode, external>>

\* another client updates the cluster between this invocation's read and its
\* update
ExternalUpdate ==
    /\ pc = "update_call"
    /\ IsManager
    /\ external < MaxExternal
    /\ external' = external + 1
    /\ \E v \in {"5", "10"} :
        swarm' = [swarm EXCEPT !.Version = @ + 1,
                               !.Spec.val["election_tick"] = v]
    /\ UNCHANGED <<supported, params, check_mode, pc, results, failure, calls, polls,
                   faults, run, before, prev, locals>>


-----------------------------------------------------------------------------
(* The inputs *)

\* the values the caller may give an optional option
Values ==
    [k \in ArgumentSpec \ {"state", "force", "node_id", "listen_addr", "remote_addrs",
                           "rotate_worker_token", "rotate_manager_token"} |->
        CASE k \in {"name"} -> {"default", "prod"}
          [] k = "join_token" -> {"SWMTKN-1"}
          [] k = "labels" -> {"{}", "{env: prod}"}
          [] k = "autolock_managers" -> {True, False}
          [] k = "signing_ca_cert" -> {"CERT"}
          [] k = "signing_ca_key" -> {"KEY"}
          [] k = "advertise_addr" -> {"eth0"}
          [] k = "data_path_addr" -> {"ens10"}
          [] k = "data_path_port" -> {"9789"}
          [] k = "default_addr_pool" -> {"10.0.0.0/8"}
          [] k = "subnet_size" -> {"24"}
          [] OTHER -> {"0", "5"}]

Optional == DOMAIN Values

RECURSIVE Choices(_)
\* the sets of at most n optional options
Choices(n) ==
    IF n = 0 THEN {{}}
    ELSE Choices(n - 1) \cup {c \cup {k} : c \in Choices(n - 1), k \in Optional}

\* module.params: argument_spec's defaults, required_if's options, and the
\* optional options the caller gave
Params(state, force, rotate_worker, rotate_manager, given) ==
    [k \in ArgumentSpec |->
        CASE k = "state" -> state
          [] k = "force" -> force
          [] k = "listen_addr" -> "0.0.0.0:2377"
          [] k = "rotate_worker_token" -> rotate_worker
          [] k = "rotate_manager_token" -> rotate_manager
          [] k = "remote_addrs" -> IF state = "join" THEN "192.168.1.1:2377" ELSE None
          [] k = "join_token" /\ state = "join" -> "SWMTKN-1"
          [] k = "node_id" -> IF state = "remove" THEN "mynode" ELSE None
          [] OTHER -> IF k \in DOMAIN given THEN given[k] ELSE None]

\* the sets of supported options the versions of main's table can give
SupportLevels ==
    { {},
      {"autolock_managers", "log_driver"},
      {"autolock_managers", "log_driver", "signing_ca_cert", "signing_ca_key",
       "ca_force_rotate", "data_path_addr"},
      GatedOptions }

\* the Specs a manager may report at the start
InitialSpecs ==
    { ApplySpec(EmptyDict),
      ApplySpec([k \in {"log_driver", "election_tick"} |->
                    IF k = "log_driver" THEN "json-file" ELSE "5"]),
      [ApplySpec(EmptyDict) EXCEPT !.keys = {"Name", "TaskDefaults"}],
      [ApplySpec(EmptyDict) EXCEPT !.keys = TopKeys \ {"TaskDefaults"}] }

InitialSwarms ==
    {NoSwarm, [NoSwarm EXCEPT !.member = "worker"]}
    \cup {[NewCluster(EmptyDict) EXCEPT !.Spec = d] : d \in InitialSpecs}

\* the optional options the code of a state reads
Used(state) ==
    CASE state = "present" -> Optional
      [] state = "join" -> {"advertise_addr", "data_path_addr"}
      [] OTHER -> {}

\* the inputs of an invocation; the options, the rotate flags and the
\* capabilities vary where the requested state reads them
Init ==
    /\ swarm \in InitialSwarms
    /\ check_mode \in BOOLEAN
    /\ \E state \in {"present", "join", "absent", "remove"},
          force \in {True, False},
          rotate_worker \in {True, False},
          rotate_manager \in {True, False},
          c \in Choices(MaxSupplied) :
            \E given \in [c -> UNION {Values[k] : k \in Optional}] :
                /\ c \subseteq Used(state)
                /\ state # "present" => rotate_worker = False /\ rotate_manager = False
                /\ \A k \in c : given[k] \in Values[k]
                /\ params = Params(state, force, rotate_worker, rotate_manager, given)
    /\ supported \in IF State = "present" THEN SupportLevels ELSE {GatedOptions}
    /\ pc = State
    /\ parameters = FromAnsibleParams
    /\ old_parameters = NewTaskParameters
    /\ update_parameters = NewTaskParameters
    /\ version = 0
    /\ differences = <<>>
    /\ results = NewResults
    /\ swarm_info = EmptyDict
    /\ created = FALSE
    /\ status_down = None
    /\ failure = ""
    /\ calls = <<>>
    /\ polls = 0
    /\ faults = 0
    /\ external = 0
    /\ run = 1
    /\ before = swarm.member
    /\ prev = [pc |-> "none", changed |-> FALSE, faults |-> 0, external |-> 0]

Next ==
    \/ InitSwarm
    \/ InitCall
    \/ Verify
    \/ CreatedInspect
    \/ UpdateSwarm
    \/ UpdateCall
    \/ UpdatedInspect
    \/ Join
    \/ JoinCall
    \/ Leave
    \/ LeaveCall
    \/ Remove
    \/ RemovePoll
    \/ RemoveDecide
    \/ RemoveCall
    \/ NextRun
    \/ ExternalUpdate

Spec == Init /\ [][Next]_vars


-----------------------------------------------------------------------------
(* Vocabulary of the properties *)

\* the caller gave option k a value
Given(k) == k \in DOMAIN params /\ params[k] # None

\* this invocation took the update path and finished its comparison
Compared == State = "present" /\ version # 0

\* the number of calls of an operation in this invocation
NumCalls(op) == Cardinality(CallsOf(calls, op))

\* no transport call of this invocation raised an error it did not owe to the
\* state of the node
NoFault == faults = 0

\* the flags that ask for a token rotation
RotateFlags == {"rotate_worker_token", "rotate_manager_token"}

\* the attributes compare_to_active compares
ComparedAttrs == {k \in Attrs \ NotCompared : Supported(k)}

-----------------------------------------------------------------------------
(* C1 *)

\* two invocations in succession, state=present without force, both applied
\* (no check mode), both ending normally, no transport error and no other
\* client in between
C1_SecondCall ==
    /\ State = "present" /\ ~Force /\ ~check_mode
    /\ run = 2 /\ pc = "done" /\ prev.pc = "done"
    /\ NoFault /\ prev.faults = 0 /\ external = 0

\* C1: the second of two identical create-or-update invocations reports
\* changed=false and an empty difference set. The rotate flags ask for an act
\* at every invocation and are no desired fields: the claim is stated for
\* invocations that leave them false.
C1_Idempotent ==
    (C1_SecondCall /\ \A k \in RotateFlags : ~Truthy(params[k])) =>
        results.changed = FALSE /\ differences = <<>>

\* what makes every invocation differ: a rotate flag, or signing CA material,
\* which update_parameters sends and update_from_swarm_info never reads back
C1_AlwaysDiffers ==
    {k \in RotateFlags : Truthy(params[k])}
    \cup {k \in {"signing_ca_cert", "signing_ca_key"} : Given(k) /\ Supported(k)}

\* what the code does at the second invocation: a difference for exactly the
\* options of C1_AlwaysDiffers, and changed=true if there is one
C1_SecondCallDiffers ==
    C1_SecondCall =>
        /\ Names(differences) = C1_AlwaysDiffers
        /\ results.changed = (C1_AlwaysDiffers # {})

\* a second call that finds nothing to do after a first one that changed an option
C1_Converged ==
    /\ C1_SecondCall
    /\ prev.changed
    /\ before = "manager"
    /\ Given("election_tick")
    /\ ~results.changed
    /\ differences = <<>>


-----------------------------------------------------------------------------
(* C2 *)

\* C2: the swarm spec an update transmits holds only options the caller gave
\* in this invocation, each with the value the caller gave; no value that
\* update_from_swarm_info filled in is in it.
C2_UpdateSendsOnlyGiven ==
    \A i \in CallsOf(calls, "update_swarm") :
        \A k \in DOMAIN calls[i].spec : Given(k) /\ calls[i].spec[k] = params[k]

\* an update was submitted with a given option in its spec while the
\* comparison copy holds values filled in from the swarm
C2_Witness ==
    /\ \E i \in CallsOf(calls, "update_swarm") : DOMAIN calls[i].spec # {}
    /\ \E k \in Backfilled : ~Given(k) /\ parameters.attr[k] # None

-----------------------------------------------------------------------------
(* C3 *)

-----------------------------------------------------------------------------
(* C4 *)

\* C4: an option the capability gate marks unsupported is in no difference and
\* in no swarm spec submitted by init_swarm or update_swarm, whether or not the
\* caller gave it.
C4_Gate ==
    \A k \in GatedOptions \ supported :
        /\ k \notin Names(differences)
        /\ \A i \in CallsOf(calls, "init_swarm") \cup CallsOf(calls, "update_swarm") :
                k \notin DOMAIN calls[i].spec

\* an update was submitted while the caller had given an unsupported option a
\* value that differs from the observed one
C4_Witness ==
    /\ NumCalls("update_swarm") = 1
    /\ \E k \in (GatedOptions \cap Assign) \ supported :
            Given(k) /\ params[k] # old_parameters.attr[k]

-----------------------------------------------------------------------------
(* C5 *)

\* C5: in check mode no invocation issues init_swarm, update_swarm, join_swarm,
\* leave_swarm or remove_node.
C5_CheckModeNoMutation == check_mode => Ops(calls) \cap Mutations = {}

\* a check-mode invocation that reports a change
C5_Witness ==
    /\ check_mode
    /\ pc = "done"
    /\ results.changed
    /\ differences # <<>>


-----------------------------------------------------------------------------
(* C6 *)

\* state=present on a node that was no manager, ended normally
C6_Created == State = "present" /\ before # "manager" /\ pc = "done"

\* what C6 says of the report, the init request apart
C6_Report ==
    /\ results.changed
    /\ results.actions = <<"New Swarm cluster created: " \o Get(swarm_info, "ID")>>
    /\ DOMAIN results.swarm_facts = {"JoinTokens", "UnlockKey"}
    /\ differences = <<[name |-> "state", parameter |-> "present", active |-> "absent"]>>

\* C6 as stated: state=present on a node that is no manager yet, ending
\* normally, submits one init request and reports changed=true, the one action
\* "New Swarm cluster created: <id>", swarm_facts with the keys JoinTokens and
\* UnlockKey only, and the single difference state: absent -> present.
C6_Create_AsStated == C6_Created => NumCalls("init_swarm") = 1 /\ C6_Report

\* C6, amended: the same report in every such invocation; the one init request
\* is submitted outside check mode, and none in check mode.
C6_Create ==
    C6_Created =>
        /\ NumCalls("init_swarm") = (IF check_mode THEN 0 ELSE 1)
        /\ C6_Report

\* an applied creation whose final inspect reports the new swarm
C6_Witness ==
    /\ C6_Created
    /\ ~check_mode
    /\ IsManager
    /\ Get(swarm_info, "ID") = "swarm-id"

-----------------------------------------------------------------------------
(* C7 *)

\* one entry (given value, observed value) for each supported, compared option
\* the caller gave a value that differs from the observed one; a rotate flag
\* counts as an option observed False
C7_Expected ==
    {[name |-> k, parameter |-> params[k], active |-> old_parameters.attr[k]] :
        k \in {a \in ComparedAttrs : Given(a) /\ params[a] # old_parameters.attr[a]}}
    \cup {[name |-> k, parameter |-> True, active |-> False] :
            k \in {a \in RotateFlags : params[a] = True}}

-----------------------------------------------------------------------------
(* C8 *)

\* every option the caller gave matches what is observed
C8_AllMatch ==
    /\ \A k \in ComparedAttrs : Given(k) => params[k] = old_parameters.attr[k]
    /\ \A k \in RotateFlags : params[k] = False

-----------------------------------------------------------------------------
(* C9 *)

NotDownMessage == "Can not remove the node. The status node is ready and not down."

\* C9: state=remove on a manager whose target node is not down at any of the
\* 5 polls: the poll answers only after the 5th, the invocation fails with
\* "Can not remove the node. The status node is ready and not down." and no
\* remove_node call is issued, forced or not.
C9_NotDownFails ==
    /\ (State = "remove" /\ pc = "poll") => polls < RepeatCheck
    /\ (State = "remove" /\ status_down = False) =>
            /\ polls = RepeatCheck
            /\ "remove_node" \notin Ops(calls)
            /\ pc # "polled" => pc = "failed" /\ failure = NotDownMessage

\* a forced, applied removal of a node that stayed ready has failed
C9_Witness ==
    /\ State = "remove"
    /\ status_down = False
    /\ Force
    /\ ~check_mode
    /\ pc = "failed"
    /\ failure = NotDownMessage

-----------------------------------------------------------------------------
(* C10 *)

\* C10: state=remove on a node that is no manager fails with "This node is not
\* a manager." before any status poll and any remove_node call: no mutation is
\* attempted.
C10_NotManagerFails ==
    (State = "remove" /\ ~IsManager /\ pc # "remove") =>
        /\ pc = "failed"
        /\ failure = "This node is not a manager."
        /\ polls = 0
        /\ Ops(calls) \cap (Mutations \cup {"check_if_swarm_node_is_down"}) = {}

\* a removal asked of a worker has failed
C10_Witness ==
    /\ State = "remove"
    /\ swarm.member = "worker"
    /\ pc = "failed"
    /\ failure = "This node is not a manager."

-----------------------------------------------------------------------------
(* C11 *)

\* C11: state=join submits a join request if and only if the node was in no
\* swarm and the invocation is not in check mode.  On a node already in a swarm
\* the invocation ends with changed=false and the action "This node is already
\* part of a swarm."; otherwise an invocation that ends normally reports
\* changed=true and the one difference joined: False -> True.
C11_JoinIffNotMember ==
    (State = "join" /\ Ended) =>
        /\ NumCalls("join_swarm") = (IF before = "none" /\ ~check_mode THEN 1 ELSE 0)
        /\ before # "none" =>
                /\ pc = "done"
                /\ ~results.changed
                /\ results.actions = <<"This node is already part of a swarm.">>
                /\ differences = <<>>
        /\ (before = "none" /\ pc = "done") =>
                /\ results.changed
                /\ differences = <<[name |-> "joined", parameter |-> True, active |-> False]>>

\* an applied join of a node that was in no swarm
C11_Witness ==
    /\ State = "join"
    /\ before = "none"
    /\ ~check_mode
    /\ pc = "done"
    /\ swarm.member = "worker"
    /\ NumCalls("join_swarm") = 1

-----------------------------------------------------------------------------
(* C12 *)

\* state=absent on a node that is in no swarm: no leave call, changed=false and
\* the one informational action
C12_NotMember ==
    (State = "absent" /\ Ended /\ before = "none") =>
        /\ pc = "done"
        /\ NumCalls("leave_swarm") = 0
        /\ ~results.changed
        /\ results.actions = <<"This node is not part of a swarm.">>

\* the leave requests carry the caller's force flag
C12_CarriesForce ==
    \A i \in CallsOf(calls, "leave_swarm") : calls[i].force = params["force"]

\* C12 as stated: state=absent on a node in no swarm issues no leave call and
\* reports changed=false with an informational action; on a node in a swarm it
\* issues exactly one leave request carrying the caller's force flag and
\* reports changed=true.
C12_Leave_AsStated ==
    /\ C12_NotMember
    /\ (State = "absent" /\ pc = "done" /\ before # "none") =>
            /\ NumCalls("leave_swarm") = 1
            /\ C12_CarriesForce
            /\ results.changed

\* C12, amended: as stated, but on a node in a swarm the one leave request is
\* issued outside check mode only; in check mode none is issued and
\* changed=true is reported all the same.
C12_Leave ==
    /\ C12_NotMember
    /\ C12_CarriesForce
    /\ (State = "absent" /\ Ended /\ before # "none") =>
            /\ NumCalls("leave_swarm") = (IF check_mode THEN 0 ELSE 1)
            /\ pc = "done" => results.changed

\* a manager has left the swarm by a forced leave
C12_Witness ==
    /\ State = "absent"
    /\ before = "manager"
    /\ Force
    /\ pc = "done"
    /\ swarm.member = "none"
    /\ \E i \in CallsOf(calls, "leave_swarm") : calls[i].force = True

-----------------------------------------------------------------------------
(* C13 *)

\* the message each mutation's except clause hands to client.fail, up to the
\* text of the error
C13_Prefix ==
    [op \in Mutations |->
        CASE op = "init_swarm" -> "Can not create a new Swarm Cluster: "
          [] op = "update_swarm" -> "Can not update a Swarm Cluster: "
          [] op = "join_swarm" -> "Can not join the Swarm Cluster: "
          [] op = "leave_swarm" -> "This node can not leave the Swarm Cluster: "
          [] op = "remove_node" -> "Can not remove the node from the Swarm Cluster: "]

\* C13: when the transport raises on init_swarm, update_swarm, join_swarm,
\* leave_swarm or remove_node, the invocation has failed with a message that
\* ends in the text of the error, that call is its last one and the only one
\* of its kind, and neither changed=true nor an action is reported.
C13_MutationErrorIsFatal ==
    \A i \in 1..Len(calls) :
        (calls[i].op \in Mutations /\ calls[i].result = APIError) =>
            /\ pc = "failed"
            /\ failure = C13_Prefix[calls[i].op] \o APIError
            /\ i = Len(calls)
            /\ NumCalls(calls[i].op) = 1
            /\ ~results.changed
            /\ results.actions = <<>>

\* an update the transport refused for an error of its own
C13_Witness ==
    /\ pc = "failed"
    /\ faults = 1
    /\ swarm.Version = version
    /\ \E i \in CallsOf(calls, "update_swarm") : calls[i].result = APIError

-----------------------------------------------------------------------------
(* C14 *)

\* a forced state=present never enters __update_swarm
C14_NoUpdatePath ==
    (State = "present" /\ Force) =>
        /\ pc \notin {"update", "update_call", "updated"}
        /\ version = 0
        /\ "update_swarm" \notin Ops(calls)
        /\ \A i \in CallsOf(calls, "init_swarm") : calls[i].force = True

\* C14 as stated: state=present with force=true takes the create path: an init
\* request with force_new_cluster=true is submitted, also on a manager, the
\* update path is never entered, and the result is changed=true.
C14_ForcedCreate_AsStated ==
    /\ C14_NoUpdatePath
    /\ (State = "present" /\ Force /\ pc = "done") =>
            /\ NumCalls("init_swarm") = 1
            /\ results.changed

\* C14, amended: as stated, but the init request is submitted outside check
\* mode only; in check mode none is submitted and changed=true is reported all
\* the same.
C14_ForcedCreate ==
    /\ C14_NoUpdatePath
    /\ (State = "present" /\ Force /\ Ended) =>
            /\ NumCalls("init_swarm") = (IF check_mode THEN 0 ELSE 1)
            /\ pc = "done" => results.changed

\* a manager whose swarm a forced state=present has created anew
C14_Witness ==
    /\ State = "present"
    /\ Force
    /\ ~check_mode
    /\ before = "manager"
    /\ pc = "done"
    /\ results.changed
    /\ \E i \in CallsOf(calls, "init_swarm") : calls[i].force = True /\ calls[i].result = "ok"

-----------------------------------------------------------------------------
(* C15 *)

\* the join tokens a dictionary of facts holds
C15_Tokens(facts) ==
    IF "JoinTokens" \in DOMAIN facts /\ "JoinTokens" \in DOMAIN swarm_info
    THEN {facts.JoinTokens[t] : t \in DOMAIN facts.JoinTokens}
    ELSE {}

\* the join token and the signing key the caller gave
C15_Secrets ==
    {params[k] : k \in {a \in {"join_token", "signing_ca_key"} : Given(a)}}

\* C15: when the caller gave a join token or a signing key and the invocation
\* returns join tokens in swarm_facts, no returned token is the value the caller
\* gave: a token of that value is returned as VALUE_SPECIFIED_IN_NO_LOG_PARAMETER.
C15_Redacted ==
    pc = "done" =>
        /\ C15_Tokens(ExitJson.swarm_facts) \cap C15_Secrets = {}
        /\ \A t \in {"Worker", "Manager"} :
                (C15_Tokens(results.swarm_facts) # {}
                    /\ results.swarm_facts.JoinTokens[t] \in C15_Secrets) =>
                        ExitJson.swarm_facts.JoinTokens[t] = Placeholder

\* the swarm's worker token is the join token the caller gave, and is returned
\* replaced
C15_Witness ==
    /\ pc = "done"
    /\ State = "present"
    /\ params["join_token"] = "SWMTKN-1"
    /\ C15_Tokens(results.swarm_facts) # {}
    /\ results.swarm_facts.JoinTokens["Worker"] = "SWMTKN-1"
    /\ ExitJson.swarm_facts.JoinTokens["Worker"] = Placeholder

-----------------------------------------------------------------------------
(* C16 *)

\* the mutations of this invocation, by their place in the call log
C16_Mutated == {i \in 1..Len(calls) : calls[i].op \in Mutations}

C16_Reads ==
    {"check_if_swarm_manager", "check_if_swarm_node", "check_if_swarm_node_is_down",
     "inspect_swarm"}

\* an inspect follows call i
C16_InspectAfter(i) == \E j \in CallsOf(calls, "inspect_swarm") : j > i

\* C16 as stated: an invocation that ends normally has made an inspect after
\* any mutation (init, update, join, leave, remove-node) it has submitted, and
\* its calls are probes or inspects, then at most one mutation, then an inspect.
C16_Refetch_AsStated ==
    /\ Cardinality(C16_Mutated) <= 1
    /\ \A i \in C16_Mutated :
            /\ \A j \in 1..(i - 1) : calls[j].op \in C16_Reads
            /\ pc = "done" => C16_InspectAfter(i)

\* C16, amended: an invocation submits at most one mutation; the calls before
\* it are probes or inspects.  After init_swarm or update_swarm an invocation
\* that ends normally has made an inspect, and the swarm_info an answered
\* inspect leaves is the cluster as the mutation left it.  join_swarm,
\* leave_swarm and remove_node are the last call of their invocation, which
\* makes no inspect and reports no swarm_facts.
C16_Refetch ==
    /\ Cardinality(C16_Mutated) <= 1
    /\ \A i \in C16_Mutated :
            /\ \A j \in 1..(i - 1) : calls[j].op \in C16_Reads
            /\ \A j \in (i + 1)..Len(calls) :
                    calls[j].op \in {"check_if_swarm_manager", "inspect_swarm",
                                     "get_unlock_key"}
            /\ calls[i].op \in {"init_swarm", "update_swarm"} =>
                    /\ pc = "done" => C16_InspectAfter(i)
                    /\ \A j \in CallsOf(calls, "inspect_swarm") :
                            (j > i /\ calls[j].result = "ok") =>
                                /\ swarm_info.Version.Index = swarm.Version
                                /\ swarm_info.Spec = swarm.Spec
                                /\ swarm_info.JoinTokens = swarm.JoinTokens
            /\ calls[i].op \in {"join_swarm", "leave_swarm", "remove_node"} =>
                    /\ i = Len(calls)
                    /\ "inspect_swarm" \notin Ops(calls)
                    /\ DOMAIN results.swarm_facts = {}

\* an update followed by an inspect that reports the updated cluster
C16_Witness ==
    /\ pc = "done"
    /\ \E i \in CallsOf(calls, "update_swarm") :
            /\ calls[i].result = "ok"
            /\ i > 1
            /\ calls[i - 1].op = "inspect_swarm"
            /\ i < Len(calls)
            /\ calls[i + 1].op = "inspect_swarm"
            /\ calls[i + 1].result = "ok"
    /\ swarm_info.Version.Index = version + 1

-----------------------------------------------------------------------------
(* C17 *)

\* another client has updated the cluster between this invocation's inspect
\* and its update
C17_Conflict == State = "present" /\ external > prev.external

\* C17: every update submitted carries the version index that the inspect
\* answered just before it, in the same invocation; when another client has
\* updated the cluster in between, the update is refused, the invocation has
\* failed, and it has made neither a second inspect nor a second update.
C17_Versioned ==
    \A i \in CallsOf(calls, "update_swarm") :
        /\ calls[i].version = version
        /\ version # 0
        /\ i > 1
        /\ calls[i - 1].op = "inspect_swarm"
        /\ calls[i - 1].result = "ok"
        /\ i = Len(calls) => swarm_info.Version.Index = calls[i].version
        /\ C17_Conflict =>
                /\ calls[i].version # swarm.Version
                /\ calls[i].result = APIError
                /\ pc = "failed"
                /\ failure = "Can not update a Swarm Cluster: " \o APIError
                /\ i = Len(calls)
                /\ NumCalls("update_swarm") = 1
                /\ NumCalls("inspect_swarm") = 1
                /\ ~results.changed

\* an update refused because another client had updated the cluster
C17_Witness ==
    /\ C17_Conflict
    /\ faults = 0
    /\ pc = "failed"
    /\ \E i \in CallsOf(calls, "update_swarm") :
            calls[i].version = version /\ swarm.Version = version + 1

-----------------------------------------------------------------------------
(* C18 *)

\* the caller asks for autolock, and the swarm was created in this invocation
\* or autolock_managers is among the differences
C18_Condition ==
    /\ params["autolock_managers"] = True
    /\ created \/ "autolock_managers" \in Names(differences)

\* one step of an invocation, by the calls it adds to the call log
C18_Step ==
    LET new == {calls'[j] : j \in (Len(calls) + 1)..Len(calls')}
        answered == \E c \in new : c.op = "inspect_swarm" /\ c.result = "ok"
        fetched == \E c \in new : c.op = "get_unlock_key"
    IN  /\ fetched => answered
        /\ answered => (fetched <=> C18_Condition)
        /\ (answered /\ ~fetched) =>
                /\ swarm_info'.UnlockKey = None
                /\ results'.swarm_facts.UnlockKey = None
        /\ pc = "update" => ~fetched
        /\ results'.actions = <<"No modification">> => "get_unlock_key" \notin Ops(calls')

\* C18: an inspect that the transport answers requests the unlock key if and
\* only if autolock is desired (true) and the swarm was created in this
\* invocation or the difference set contains autolock_managers; otherwise
\* UnlockKey is reported as None without a fetch.  The inspect before the
\* comparison and the no-modification path never fetch the key.
C18_UnlockKeyFetch == [][C18_Step]_vars

\* an update that turned autolock on has fetched the unlock key
C18_Witness ==
    /\ pc = "done"
    /\ version # 0
    /\ "get_unlock_key" \in Ops(calls)
    /\ Get(swarm_info, "UnlockKey") = "SWMKEY-1"
    /\ old_parameters.attr["autolock_managers"] = False

-----------------------------------------------------------------------------
(* C19 *)

\* what create and update report at their end, whatever the key fetch did
C19_Completed ==
    /\ pc = "done"
    /\ results.changed
    /\ results.actions =
            IF created THEN <<"New Swarm cluster created: " \o Get(swarm_info, "ID")>>
            ELSE <<"Swarm cluster updated">>

\* C19: when the fetch of the unlock key raises, the invocation does not fail:
\* UnlockKey is reported as None, and the creation or update ends with
\* changed=true and its action, as it does when the fetch answers.
C19_KeyErrorNotFatal ==
    \A i \in CallsOf(calls, "get_unlock_key") :
        /\ C19_Completed
        /\ calls[i].result = APIError =>
                /\ failure = ""
                /\ swarm_info.UnlockKey = None
                /\ results.swarm_facts.UnlockKey = None

\* a creation with autolock whose key fetch raised
C19_Witness ==
    /\ created
    /\ pc = "done"
    /\ \E i \in CallsOf(calls, "get_unlock_key") : calls[i].result = APIError
    /\ UnlockKeyOf = "SWMKEY-1"
    /\ results.swarm_facts.UnlockKey = None

-----------------------------------------------------------------------------
(* C20 *)

\* the manager check of the create path has answered that the node is no
\* manager: the check that follows the init call or, where no init call is
\* made, the first check
C20_NotManagerAfterInit ==
    /\ State = "present"
    /\ \E i \in CallsOf(calls, "check_if_swarm_manager") :
            /\ i > 1 \/ Force
            /\ calls[i].result = False

\* C20: on the create path, when the node is no manager after the init
\* submission, an invocation outside check mode has failed with "Swarm not
\* created or other error!" and reports no creation; in check mode it has not
\* failed and goes on to report the creation with changed=true.
C20_Verification ==
    C20_NotManagerAfterInit =>
        IF check_mode
        THEN /\ pc \in {"created", "done"}
             /\ created
             /\ failure = ""
             /\ pc = "done" =>
                    /\ results.changed
                    /\ results.actions =
                            <<"New Swarm cluster created: " \o Get(swarm_info, "ID")>>
                    /\ differences =
                            <<[name |-> "state", parameter |-> "present", active |-> "absent"]>>
        ELSE /\ pc = "failed"
             /\ failure = "Swarm not created or other error!"
             /\ ~created
             /\ ~results.changed
             /\ results.actions = <<>>
             /\ differences = <<>>

\* an applied init that answered, after which the manager check did not
C20_Witness ==
    /\ C20_NotManagerAfterInit
    /\ ~check_mode
    /\ pc = "failed"
    /\ \E i \in CallsOf(calls, "init_swarm") : calls[i].result = "ok"

-----------------------------------------------------------------------------
(* C21 *)

\* the sub-sections of the reported Spec
C21_Sections ==
    {"Raft", "CAConfig", "Dispatcher", "Orchestration", "EncryptionConfig",
     "TaskDefaults"}

\* __update_swarm's inspect has answered with a Spec that lacks sub-section s
C21_Lacks(s) ==
    /\ State = "present"
    /\ ~created
    /\ "Spec" \in DOMAIN swarm_info
    /\ s \notin swarm_info.Spec.keys

\* C21: when the Spec the inspect reports lacks a sub-section (raft,
\* certificate authority, dispatcher, orchestration, encryption, task
\* defaults), update_from_swarm_info raises no error: the update path reaches
\* its comparison and its verdict.
C21_MissingSectionsTolerated ==
    \A s \in C21_Sections :
        C21_Lacks(s) => version # 0 /\ pc # "crashed"

\* what the code does: the five sub-sections read with `spec.get(...) or
\* dict()` may be missing, as long as TaskDefaults and Name are there
C21_FiveSectionsTolerated ==
    \A s \in C21_Sections \ {"TaskDefaults"} :
        (C21_Lacks(s) /\ {"TaskDefaults", "Name"} \subseteq swarm_info.Spec.keys) =>
            version # 0 /\ pc # "crashed"

\* an update path that has compared against a Spec without its Raft section
C21_Compared ==
    /\ C21_Lacks("Raft")
    /\ pc = "done"
    /\ version # 0
    /\ old_parameters.attr["election_tick"] = None

-----------------------------------------------------------------------------
(* C22 *)

\* C22: state=remove on a manager, when the poll of the node's status has
\* raised a transport error: the removal is given up, the invocation ends
\* normally without a remove_node call, with changed=false, no action and no
\* difference.
C22_PollErrorAborts ==
    (State = "remove" /\ status_down = APIError) =>
        /\ pc \in {"polled", "done"}
        /\ failure = ""
        /\ "remove_node" \notin Ops(calls)
        /\ ~results.changed
        /\ results.actions = <<>>
        /\ differences = <<>>

\* an applied removal that ended after its poll had raised
C22_Witness ==
    /\ State = "remove"
    /\ ~check_mode
    /\ status_down = APIError
    /\ polls > 0
    /\ pc = "done"

-----------------------------------------------------------------------------
(* C23 *)

\* C23: an invocation that has ended without failing, whatever the requested
\* state and in check mode or not, reports changed=true if and only if its
\* difference set is not empty.
C23_ChangedIffDifferences ==
    pc = "done" => (results.changed <=> differences # <<>>)

\* a check-mode removal has ended with a change and its difference
C23_Witness ==
    /\ pc = "done"
    /\ State = "remove"
    /\ check_mode
    /\ results.changed
    /\ differences = <<[name |-> "joined", parameter |-> False, active |-> True]>>

-----------------------------------------------------------------------------
(* C24 *)

\* the mutating calls of this invocation, by their place in the call log
C24_Mutating == {i \in 1..Len(calls) : calls[i].op \in Mutations}

\* C24: an invocation issues at most one mutating call (init_swarm,
\* update_swarm, join_swarm, leave_swarm or remove_node), whatever the requested
\* state, the state of the cluster and the answers of the transport; once a
\* mutating call has raised an error no call follows it.
C24_AtMostOneMutation ==
    /\ Cardinality(C24_Mutating) <= 1
    /\ \A i \in C24_Mutating : calls[i].result = APIError => i = Len(calls)

\* an invocation has ended after its one mutating call raised an error of the
\* transport
C24_Witness ==
    /\ Ended
    /\ faults > 0
    /\ Cardinality(C24_Mutating) = 1
    /\ \E i \in C24_Mutating :
            /\ calls[i].op = "join_swarm"
            /\ calls[i].result = APIError
            /\ i > 1

-----------------------------------------------------------------------------
(* C25 *)

\* this invocation has compared on the update path with rotate flag k true
C25_Rotating(k) == Compared /\ params[k] = True

\* the entry compare_to_active adds for rotate flag k
C25_Entry(k) == [name |-> k, parameter |-> True, active |-> False]

C25_HasEntry(k) == \E j \in 1..Len(differences) : differences[j] = C25_Entry(k)

\* C25 as stated: on the update path with a rotate flag true the difference set
\* holds the flag's entry (true, false), and an invocation that has ended
\* normally has submitted an update carrying the flag and reports changed=true.
C25_RotateAlwaysUpdates_AsStated ==
    \A k \in RotateFlags :
        C25_Rotating(k) =>
            /\ C25_HasEntry(k)
            /\ pc = "done" =>
                    /\ results.changed
                    /\ \E i \in CallsOf(calls, "update_swarm") : calls[i][k] = True

\* C25, amended: on the update path with a rotate flag true the difference set
\* holds the flag's entry (true, false) whatever the other fields.  Outside
\* check mode one update carrying the flag is submitted, and in check mode
\* none is; an invocation that ends normally reports changed=true and the
\* action "Swarm cluster updated" in either mode, repeated invocations included.
C25_RotateAlwaysUpdates ==
    \A k \in RotateFlags :
        C25_Rotating(k) =>
            /\ C25_HasEntry(k)
            /\ check_mode => NumCalls("update_swarm") = 0
            /\ (~check_mode /\ pc # "update_call") =>
                    /\ NumCalls("update_swarm") = 1
                    /\ \A i \in CallsOf(calls, "update_swarm") : calls[i][k] = True
            /\ pc = "done" =>
                    /\ results.changed
                    /\ \E j \in 1..Len(results.actions) :
                            results.actions[j] = "Swarm cluster updated"

\* a second identical invocation whose only difference is the entry of a
\* rotate flag has updated and reports a change, as the first one did
C25_Witness ==
    /\ run = 2
    /\ prev.pc = "done"
    /\ prev.changed
    /\ ~check_mode
    /\ C25_Rotating("rotate_worker_token")
    /\ differences = <<C25_Entry("rotate_worker_token")>>
    /\ pc = "done"
    /\ results.changed
    /\ \E i \in CallsOf(calls, "update_swarm") :
            calls[i].rotate_worker_token = True /\ calls[i].result = "ok"


====
